---- MODULE Spec2Model ----
(***************************************************************************)
(* A model of the EdStats helper library (src/edstats_utils.py).           *)
(*                                                                         *)
(* The library is a set of pure functions over pandas tables.  A table is  *)
(* a sequence of rows; a row is a function from column labels to cells,    *)
(* with the row's index label kept under the pseudo-column IDX.  A string  *)
(* (an indicator name, a regular expression's literal) is a sequence of    *)
(* tokens: words, single blanks and punctuation marks, cut so that every   *)
(* literal of a pattern is a run of whole tokens.  Regular                 *)
(* expressions are syntax trees run by a backtracking matcher that tries   *)
(* the alternatives in the order Python's `re` tries them.                 *)
(***************************************************************************)
EXTENDS Integers, Sequences, FiniteSets, TLC

VARIABLES
    df,         \* the table passed as `df`
    other,      \* the second table argument (`df_country`, `df_data`)
    columns,    \* the column labels of `df`, in order
    fn,         \* the function called last ("none" before any call)
    arg,        \* its scalar argument: the pattern, or the list of years
    ret,        \* what it returned
    raised      \* the exception it raised, "none" when it returned

vars == <<df, other, columns, fn, arg, ret, raised>>

\* Bounds of the model.
MaxRows == 2

(***************************************************************************)
(* Cells and strings                                                       *)
(***************************************************************************)
\* pandas' missing value (NaN / None) in a column of strings.
NaN == <<"<NaN>">>

\* The pseudo-column holding a row's index label.
IDX == "(index)"

\* Words joined by single blanks: W(<<"a","b">>) is the string "a b".
RECURSIVE W(_)
W(ws) ==
    IF Len(ws) = 0 THEN <<>>
    ELSE IF Len(ws) = 1 THEN <<ws[1]>>
    ELSE <<ws[1], " ">> \o W(Tail(ws))

\* str.lower() on one token, as re.IGNORECASE folds it.
Lower(t) ==
    CASE t = "Barro-Lee:" -> "barro-lee:"
      [] t = "Percentage" -> "percentage"
      [] t = "Average" -> "average"
      [] t = "PISA:" -> "pisa:"
      [] t = "LLECE:" -> "llece:"
      [] t = "TIMSS:" -> "timss:"
      [] t = "PIAAC:" -> "piaac:"
      [] t = "Wittgenstein" -> "wittgenstein"
      [] t = "Projection:" -> "projection:"
      [] t = "Mean" -> "mean"
      [] t = "Population" -> "population"
      [] t = "Theoretical" -> "theoretical"
      [] t = "THEORETICAL" -> "theoretical"
      [] t = "Government" -> "government"
      [] t = "GDP" -> "gdp"
      [] t = "Male" -> "male"
      [] t = "Female" -> "female"
      [] t = "Age" -> "age"
      [] t = "Adults" -> "adults"
      [] t = "Level" -> "level"
      [] t = "Below" -> "below"
      [] t = "Some" -> "some"
      [] t = "Secondary" -> "secondary"
      [] t = "Tertiary" -> "tertiary"
      [] t = "Completed" -> "completed"
      [] t = "No" -> "no"
      [] t = "Education" -> "education"
      [] t = "Total" -> "total"
      [] OTHER -> t

Whitespace == {" ", "\t", "\n"}
DigitTokens == {"0", "1", "2", "3", "4", "6", "8", "15", "19", "24", "25", "64", "75"}

(***************************************************************************)
(* Regular expressions                                                     *)
(***************************************************************************)
Lit(t) == [k |-> "lit", t |-> t]            \* literal text
Cls(c) == [k |-> "cls", c |-> c]            \* one character of a class
Cat(rs) == [k |-> "cat", rs |-> rs]         \* concatenation
Alt(rs) == [k |-> "alt", rs |-> rs]         \* a|b, leftmost first
\* r{min,} (greedy) or r{min,}? (lazy), r one class
Rep(r, min, greedy) == [k |-> "rep", r |-> r, min |-> min, greedy |-> greedy]
Opt(r) == [k |-> "opt", r |-> r]            \* r?, greedy
Grp(name, r) == [k |-> "grp", name |-> name, r |-> r]   \* (?P<name>r); "" unnamed
Eos == [k |-> "eos"]                        \* $
Ahead(r) == [k |-> "ahead", r |-> r]        \* (?=r)
Behind(t) == [k |-> "behind", t |-> t]      \* (?<=t), t literal

Dot == Cls("dot")             \* .       any character but a newline
AnyChar == Cls("any")         \* [\s\S]  any character
Printable == Cls("print")     \* [\S ]   no whitespace but the blank
Digits == Rep(Cls("digit"), 1, TRUE)        \* [0-9]+
Blank == Cls("blank")         \* [ ]

InClass(c, t) ==
    CASE c = "dot" -> t # "\n"
      [] c = "any" -> TRUE
      [] c = "print" -> t \notin (Whitespace \ {" "})
      [] c = "digit" -> t \in DigitTokens
      [] c = "blank" -> t = " "

GroupNames == {"indicator", "age_group", "gender", "education", "schooling",
               "completed", "institution", "grade", "subject", "level",
               "achievement"}

NoCaps == [g \in GroupNames |-> NaN]
Fail == [ok |-> FALSE]

TokEq(a, b, ci) == IF ci THEN Lower(a) = Lower(b) ELSE a = b

LitAt(t, s, i, ci) ==
    /\ i + Len(t) - 1 <= Len(s)
    /\ \A n \in 1..Len(t) : TokEq(s[i + n - 1], t[n], ci)

\* How many characters from position i of s on are of class c.
Run(c, s, i) ==
    CHOOSE m \in 0..(Len(s) - i + 1) :
        /\ \A n \in 0..(m - 1) : InClass(c, s[i + n])
        /\ (i + m <= Len(s) => ~InClass(c, s[i + m]))

\* Of the tries <<position, result>>, those that succeeded.
Successes(tries) == {t \in tries : t[2].ok}

\* The result of the successful try at the least (greatest) position.
Earliest(good) ==
    IF good = {} THEN Fail ELSE (CHOOSE t \in good : \A e \in good : t[1] <= e[1])[2]
Latest(good) ==
    IF good = {} THEN Fail ELSE (CHOOSE t \in good : \A e \in good : e[1] <= t[1])[2]

\* The backtracking matcher: `todo` is the stack of what is still to be
\* matched from position i of s; c holds the groups captured so far; ci is
\* re.IGNORECASE.  The first success in Python's order is the result: a
\* greedy repetition of a class takes the longest run the rest can follow,
\* a lazy one the shortest.
RECURSIVE MatchK(_, _, _, _, _)
MatchK(todo, s, i, c, ci) ==
    IF Len(todo) = 0 THEN [ok |-> TRUE, end |-> i, caps |-> c]
    ELSE
      LET r == Head(todo)
          rest == Tail(todo)
      IN CASE r.k = "lit" ->
                IF LitAt(r.t, s, i, ci)
                THEN MatchK(rest, s, i + Len(r.t), c, ci) ELSE Fail
           [] r.k = "cls" ->
                IF i <= Len(s) /\ InClass(r.c, s[i])
                THEN MatchK(rest, s, i + 1, c, ci) ELSE Fail
           [] r.k = "cat" -> MatchK(r.rs \o rest, s, i, c, ci)
           [] r.k = "alt" ->
                IF Len(r.rs) = 0 THEN Fail
                ELSE LET first == MatchK(<<Head(r.rs)>> \o rest, s, i, c, ci)
                     IN IF first.ok THEN first
                        ELSE MatchK(<<Alt(Tail(r.rs))>> \o rest, s, i, c, ci)
           [] r.k = "opt" ->
                LET with == MatchK(<<r.r>> \o rest, s, i, c, ci)
                IN IF with.ok THEN with ELSE MatchK(rest, s, i, c, ci)
           [] r.k = "rep" ->
                LET good == Successes({<<j, MatchK(rest, s, j, c, ci)>> :
                                          j \in (i + r.min)..(i + Run(r.r.c, s, i))})
                IN IF r.greedy THEN Latest(good) ELSE Earliest(good)
           [] r.k = "grp" ->
                MatchK(<<r.r, [k |-> "close", name |-> r.name, from |-> i]>> \o rest,
                       s, i, c, ci)
           [] r.k = "close" ->
                MatchK(rest, s, i,
                       IF r.name = "" THEN c
                       ELSE [c EXCEPT ![r.name] = SubSeq(s, r.from, i - 1)], ci)
           [] r.k = "eos" ->
                IF i = Len(s) + 1 \/ (i = Len(s) /\ s[i] = "\n")
                THEN MatchK(rest, s, i, c, ci) ELSE Fail
           [] r.k = "ahead" ->
                IF MatchK(<<r.r>>, s, i, c, ci).ok
                THEN MatchK(rest, s, i, c, ci) ELSE Fail
           [] r.k = "behind" ->
                IF i - Len(r.t) >= 1 /\ LitAt(r.t, s, i - Len(r.t), ci)
                THEN MatchK(rest, s, i, c, ci) ELSE Fail

\* re.search: the match at the leftmost position where there is one.
Search(re, s, ci) ==
    Earliest(Successes({<<i, MatchK(<<re>>, s, i, NoCaps, ci)>> : i \in 1..(Len(s) + 1)}))

\* Series.str.contains(re, regex=True, case=not ci), for one cell.
StrContains(s, re, ci) == Search(re, s, ci).ok

\* Series.str.extract(re, expand=True), for one cell: the named groups of
\* the first match, NaN for a group that took no part and for no match.
Groups(m) == IF m.ok THEN m.caps ELSE NoCaps
StrExtract(s, re) == Groups(Search(re, s, FALSE))

(***************************************************************************)
(* The patterns of the library                                             *)
(***************************************************************************)
\* age [0-9]+(-[0-9]+|\+), with the given spelling of "age"
AgeRange(age) ==
    Cat(<<Lit(<<age, " ">>), Digits,
          Grp("", Alt(<<Cat(<<Lit(<<"-">>), Digits>>), Lit(<<"+">>)>>))>>)

\* (?P<gender>(Male|Female))?
GenderMF == Opt(Grp("gender", Grp("", Alt(<<Lit(<<"Male">>), Lit(<<"Female">>)>>))))

\* 'Wittgenstein Projection: Mean years of schooling'
SelWittMean == Lit(W(<<"Wittgenstein", "Projection:", "Mean", "years", "of", "schooling">>))
\* 'Wittgenstein Projection: Population .* education'
SelWittPop ==
    Cat(<<Lit(W(<<"Wittgenstein", "Projection:", "Population">>) \o <<" ">>),
          Rep(Dot, 0, TRUE), Lit(<<" ", "education">>)>>)
\* 'Barro-Lee: Percentage of .*'
SelBarroPct ==
    Cat(<<Lit(W(<<"Barro-Lee:", "Percentage", "of">>) \o <<" ">>), Rep(Dot, 0, TRUE)>>)
\* 'Barro-Lee: Average years .*'
SelBarroYears ==
    Cat(<<Lit(W(<<"Barro-Lee:", "Average", "years">>) \o <<" ">>), Rep(Dot, 0, TRUE)>>)
\* 'Theoretical duration of .* education \(years\)'
SelEduLength ==
    Cat(<<Lit(W(<<"Theoretical", "duration", "of">>) \o <<" ">>), Rep(Dot, 0, TRUE),
          Lit(<<" ", "education", " ", "(", "years", ")">>)>>)
\* 'Government expenditure in .* as % of GDP \(%\)'
SelGdpInst ==
    Cat(<<Lit(W(<<"Government", "expenditure", "in">>) \o <<" ">>), Rep(Dot, 0, TRUE),
          Lit(<<" ">> \o W(<<"as", "%", "of", "GDP">>) \o <<" ", "(", "%", ")">>)>>)
\* 'Government expenditure on .* education as % of GDP \(%\)'
SelGdpEdu ==
    Cat(<<Lit(W(<<"Government", "expenditure", "on">>) \o <<" ">>), Rep(Dot, 0, TRUE),
          Lit(<<" ">> \o W(<<"education", "as", "%", "of", "GDP">>)
              \o <<" ", "(", "%", ")">>)>>)
\* 'LLECE: .* students by .* proficiency level'
SelLlece ==
    Cat(<<Lit(<<"LLECE:", " ">>), Rep(Dot, 0, TRUE),
          Lit(<<" ">> \o W(<<"students", "by">>) \o <<" ">>), Rep(Dot, 0, TRUE),
          Lit(<<" ", "proficiency", " ", "level">>)>>)
\* 'PISA: .* proficiency level'
SelPisa ==
    Cat(<<Lit(<<"PISA:", " ">>), Rep(Dot, 0, TRUE),
          Lit(<<" ", "proficiency", " ", "level">>)>>)
\* 'TIMSS: .* achievement'
SelTimss ==
    Cat(<<Lit(<<"TIMSS:", " ">>), Rep(Dot, 0, TRUE), Lit(<<" ", "achievement">>)>>)
\* 'PIAAC: .* proficiency level'
SelPiaac ==
    Cat(<<Lit(<<"PIAAC:", " ">>), Rep(Dot, 0, TRUE),
          Lit(<<" ", "proficiency", " ", "level">>)>>)

\* 'Wittgenstein Projection: (?P<indicator>.*?(?P<age_group>Age [0-9]+(-[0-9]+|\+)).
\*  (?P<gender>[\s\S]+))'
ExtWittMean ==
    Cat(<<Lit(<<"Wittgenstein", " ", "Projection:", " ">>),
          Grp("indicator",
              Cat(<<Rep(Dot, 0, FALSE), Grp("age_group", AgeRange("Age")),
                    Dot, Lit(<<" ">>), Grp("gender", Rep(AnyChar, 1, TRUE))>>))>>)

\* 'Wittgenstein Projection: (?P<indicator>.*?(?P<age_group>age [0-9]+(-[0-9]+|\+))?
\*  in thousands .*?\. (?P<education>[\s\S]+)\. (?P<gender>[\s\S]+))'
ExtWittPop ==
    Cat(<<Lit(<<"Wittgenstein", " ", "Projection:", " ">>),
          Grp("indicator",
              Cat(<<Rep(Dot, 0, FALSE), Opt(Grp("age_group", AgeRange("age"))),
                    Lit(<<" ", "in", " ", "thousands", " ">>), Rep(Dot, 0, FALSE),
                    Lit(<<".", " ">>), Grp("education", Rep(AnyChar, 1, TRUE)),
                    Lit(<<".", " ">>), Grp("gender", Rep(AnyChar, 1, TRUE))>>))>>)

\* ExtBarroPct with the schooling group greedy, [\s\S]+ for [\s\S]+?.
ExtBarroPctGreedy ==
    Cat(<<Lit(<<"Barro-Lee:", " ">>),
          Grp("indicator",
              Cat(<<Lit(<<"Percentage", " ", "of">>), Opt(Blank),
                    Opt(Grp("gender", Lit(<<"female">>))),
                    Lit(<<" ", "population">>), Opt(Blank),
                    Opt(Grp("age_group", AgeRange("age"))),
                    Lit(<<" ", "with", " ">>),
                    Grp("schooling", Rep(AnyChar, 1, TRUE)),
                    Opt(Grp("", Cat(<<Lit(<<".", " ">>),
                                      Grp("completed", Rep(AnyChar, 1, TRUE))>>))),
                    Eos>>))>>)

\* 'Barro-Lee: (?P<indicator>Percentage of[ ]?(?P<gender>female)? population[ ]?
\*  (?P<age_group>age [0-9]+(-[0-9]+|\+))? with (?P<schooling>[\s\S]+?)
\*  (\. (?P<completed>[\s\S]+))?$)'
ExtBarroPct ==
    Cat(<<Lit(<<"Barro-Lee:", " ">>),
          Grp("indicator",
              Cat(<<Lit(<<"Percentage", " ", "of">>), Opt(Blank),
                    Opt(Grp("gender", Lit(<<"female">>))),
                    Lit(<<" ", "population">>), Opt(Blank),
                    Opt(Grp("age_group", AgeRange("age"))),
                    Lit(<<" ", "with", " ">>),
                    Grp("schooling", Rep(AnyChar, 1, FALSE)),
                    Opt(Grp("", Cat(<<Lit(<<".", " ">>),
                                      Grp("completed", Rep(AnyChar, 1, TRUE))>>))),
                    Eos>>))>>)

\* 'Barro-Lee: (?P<indicator>Average years of (?P<schooling>[\s\S]+),
\*  (?P<age_group>age [0-9]+(-[0-9]+|\+))?, (?P<gender>[\s\S]+))'
ExtBarroYears ==
    Cat(<<Lit(<<"Barro-Lee:", " ">>),
          Grp("indicator",
              Cat(<<Lit(W(<<"Average", "years", "of">>) \o <<" ">>),
                    Grp("schooling", Rep(AnyChar, 1, TRUE)), Lit(<<",", " ">>),
                    Opt(Grp("age_group", AgeRange("age"))), Lit(<<",", " ">>),
                    Grp("gender", Rep(AnyChar, 1, TRUE))>>))>>)

\* 'Theoretical duration of (?P<education>[\s\S]+) education (years)'
\* (the parentheses are not escaped: a group holding the word years)
ExtEduLength ==
    Cat(<<Lit(W(<<"Theoretical", "duration", "of">>) \o <<" ">>),
          Grp("education", Rep(AnyChar, 1, TRUE)),
          Lit(<<" ", "education", " ">>), Grp("", Lit(<<"years">>))>>)

\* 'Government expenditure in (?P<institution>[\s\S]+) as % of GDP (%)'
ExtGdpInst ==
    Cat(<<Lit(W(<<"Government", "expenditure", "in">>) \o <<" ">>),
          Grp("institution", Rep(AnyChar, 1, TRUE)),
          Lit(<<" ">> \o W(<<"as", "%", "of", "GDP">>) \o <<" ">>),
          Grp("", Lit(<<"%">>))>>)

\* 'Government expenditure on (?P<education>[\s\S]+) education as % of GDP (%)'
ExtGdpEdu ==
    Cat(<<Lit(W(<<"Government", "expenditure", "on">>) \o <<" ">>),
          Grp("education", Rep(AnyChar, 1, TRUE)),
          Lit(<<" ">> \o W(<<"education", "as", "%", "of", "GDP">>) \o <<" ">>),
          Grp("", Lit(<<"%">>))>>)

\* 'LLECE: (?P<indicator>(?P<gender>(Male|Female))?[ ]*(?P<grade>[0-9]+(rd|th) grade)
\*  students by (?P<subject>.*?) proficiency level \(%\)\. (?P<level>[\S ]+))'
ExtLlece ==
    Cat(<<Lit(<<"LLECE:", " ">>),
          Grp("indicator",
              Cat(<<GenderMF, Rep(Blank, 0, TRUE),
                    Grp("grade",
                        Cat(<<Digits, Grp("", Alt(<<Lit(<<"rd">>), Lit(<<"th">>)>>)),
                              Lit(<<" ", "grade">>)>>)),
                    Lit(<<" ">> \o W(<<"students", "by">>) \o <<" ">>),
                    Grp("subject", Rep(Dot, 0, FALSE)),
                    Lit(<<" ", "proficiency", " ", "level", " ", "(", "%", ")", ".", " ">>),
                    Grp("level", Rep(Printable, 1, TRUE))>>))>>)

\* 'PISA: (?P<indicator>(?P<gender>(Male|Female))?[ ]*[0-9]+-year-olds by
\*  (?P<subject>.*?) proficiency level \(%\)\. (?P<level>[\S ]+))'
ExtPisa ==
    Cat(<<Lit(<<"PISA:", " ">>),
          Grp("indicator",
              Cat(<<GenderMF, Rep(Blank, 0, TRUE), Digits,
                    Lit(<<"-", "year-olds", " ", "by", " ">>),
                    Grp("subject", Rep(Dot, 0, FALSE)),
                    Lit(<<" ", "proficiency", " ", "level", " ", "(", "%", ")", ".", " ">>),
                    Grp("level", Rep(Printable, 1, TRUE))>>))>>)

\* 'TIMSS: (?P<indicator>(?P<gender>(Male|Female))?[ ]*(?P<grade>.*) grade students
\*  (?P<achievement>(reaching the .*?|who did not reach the low) international
\*  benchmark) of (?P<subject>.*) achievement \(%\))'
ExtTimss ==
    Cat(<<Lit(<<"TIMSS:", " ">>),
          Grp("indicator",
              Cat(<<GenderMF, Rep(Blank, 0, TRUE),
                    Grp("grade", Rep(Dot, 0, TRUE)),
                    Lit(<<" ">> \o W(<<"grade", "students">>) \o <<" ">>),
                    Grp("achievement",
                        Cat(<<Grp("", Alt(<<Cat(<<Lit(W(<<"reaching", "the">>) \o <<" ">>),
                                                  Rep(Dot, 0, FALSE)>>),
                                            Lit(W(<<"who", "did", "not", "reach",
                                                    "the", "low">>))>>)),
                              Lit(<<" ", "international", " ", "benchmark">>)>>)),
                    Lit(<<" ", "of", " ">>),
                    Grp("subject", Rep(Dot, 0, TRUE)),
                    Lit(<<" ", "achievement", " ", "(", "%", ")">>)>>))>>)

\* 'PIAAC: (?P<indicator>(?P<gender>(Male|Female|Young))?[ ]*[aA]dults by .*?
\*  (?P<subject>((?<=proficiency level in ).*|.*(?= proficiency level))).*? \(%\).
\*  (?P<level>[\S ]+))'
ExtPiaac ==
    Cat(<<Lit(<<"PIAAC:", " ">>),
          Grp("indicator",
              Cat(<<Opt(Grp("gender", Grp("", Alt(<<Lit(<<"Male">>), Lit(<<"Female">>),
                                                    Lit(<<"Young">>)>>)))),
                    Rep(Blank, 0, TRUE),
                    Alt(<<Lit(<<"adults">>), Lit(<<"Adults">>)>>),
                    Lit(<<" ", "by", " ">>), Rep(Dot, 0, FALSE),
                    Grp("subject",
                        Grp("", Alt(<<Cat(<<Behind(W(<<"proficiency", "level", "in">>)
                                                   \o <<" ">>),
                                            Rep(Dot, 0, TRUE)>>),
                                      Cat(<<Rep(Dot, 0, TRUE),
                                            Ahead(Lit(<<" ", "proficiency", " ",
                                                        "level">>))>>)>>))),
                    Rep(Dot, 0, FALSE), Lit(<<" ", "(", "%", ")">>), Dot, Lit(<<" ">>),
                    Grp("level", Rep(Printable, 1, TRUE))>>))>>)

(***************************************************************************)
(* Tables                                                                  *)
(***************************************************************************)
cName == "Indicator Name"
cCode == "Indicator Code"
cCountry == "Country Code"
cRegion == "Region"

\* df[mask]: the rows that satisfy Test, in order, index labels kept.
Filter(t, Test(_)) == SelectSeq(t, Test)

\* df[col].tolist()
Column(t, col) == [i \in 1..Len(t) |-> t[i][col]]

\* Series.drop_duplicates(): the first occurrence of every value is kept.
RECURSIVE DropDuplicates(_)
DropDuplicates(xs) ==
    IF Len(xs) = 0 THEN <<>>
    ELSE LET init == DropDuplicates(SubSeq(xs, 1, Len(xs) - 1))
             x == xs[Len(xs)]
         IN IF \E i \in 1..Len(init) : init[i] = x THEN init ELSE Append(init, x)

(***************************************************************************)
(* Indicator selection                                                     *)
(***************************************************************************)
\* list_indicators without drop_duplicates().
list_indicators_nodedup(str, t) ==
    Column(Filter(t, LAMBDA r : StrContains(r[cName], str, FALSE)), cCode)

\* list_indicators(str, df): the codes of the rows whose name contains the
\* pattern, each once.
list_indicators(str, t) ==
    LET sel == Filter(t, LAMBDA r : StrContains(r[cName], str, FALSE))
    IN DropDuplicates(Column(sel, cCode))

\* _retrieve_indicator as a filter on each row's own name.
retrieve_indicator_rowwise(t, reg_str) ==
    Filter(t, LAMBDA r : StrContains(r[cName], reg_str, TRUE))

\* _retrieve_indicator(df, reg_str): the rows whose code is in the list of
\* the codes of the rows whose name contains the pattern, whatever the case.
IsIn(t, ls_inds) == Filter(t, LAMBDA r : \E i \in 1..Len(ls_inds) : ls_inds[i] = r[cCode])
retrieve_indicator(t, reg_str) ==
    IsIn(t, Column(Filter(t, LAMBDA r : StrContains(r[cName], reg_str, TRUE)), cCode))

(***************************************************************************)
(* Facet extraction                                                        *)
(***************************************************************************)
\* DataFrame.fillna({col: value}) on one row of groups.
FillNa(caps, defaults) ==
    [g \in DOMAIN caps |->
        IF caps[g] = NaN /\ g \in DOMAIN defaults THEN defaults[g] ELSE caps[g]]

NoDefaults == [g \in {} |-> NaN]

\* The body shared by the retrieve_* functions: select by the coarse pattern,
\* extract the groups from every selected name, keep the listed columns,
\* fill the defaults, and put the columns beside the selected rows
\* (pd.concat(axis=1) of two frames with the same index).
Keep(groups, facets) == [g \in facets |-> groups[g]]
Concat(rows, ext, facets, defaults) ==
    [i \in 1..Len(rows) |->
        rows[i] @@ FillNa(Keep(StrExtract(rows[i][cName], ext), facets), defaults)]
Retrieve(t, sel, ext, facets, defaults) ==
    Concat(retrieve_indicator(t, sel), ext, facets, defaults)

retrieve_wittgenstein_mean_schooling(t) ==
    Retrieve(t, SelWittMean, ExtWittMean, {"indicator", "age_group", "gender"}, NoDefaults)

retrieve_wittgenstein_population(t) ==
    Retrieve(t, SelWittPop, ExtWittPop, {"indicator", "age_group", "education", "gender"},
             [age_group |-> <<"Total">>])

retrieve_barrolee_percentage(t) ==
    Retrieve(t, SelBarroPct, ExtBarroPct,
             {"indicator", "schooling", "completed", "age_group", "gender"},
             [gender |-> <<"total">>])

retrieve_barrolee_years(t) ==
    Retrieve(t, SelBarroYears, ExtBarroYears,
             {"indicator", "schooling", "age_group", "gender"}, NoDefaults)

retrieve_education_length(t) ==
    Retrieve(t, SelEduLength, ExtEduLength, {"education"}, NoDefaults)

retrieve_gdp_education_institution(t) ==
    Retrieve(t, SelGdpInst, ExtGdpInst, {"institution"}, NoDefaults)

retrieve_gdp_education(t) ==
    Retrieve(t, SelGdpEdu, ExtGdpEdu, {"education"}, NoDefaults)

retrieve_skill_llece(t) ==
    Retrieve(t, SelLlece, ExtLlece, {"indicator", "gender", "grade", "subject", "level"},
             [gender |-> <<"Total">>])

\* retrieve_skill_pisa filling the gender with the Barro-Lee default.
retrieve_skill_pisa_lower(t) ==
    Retrieve(t, SelPisa, ExtPisa, {"indicator", "gender", "subject", "level"},
             [gender |-> <<"total">>])

retrieve_skill_pisa(t) ==
    Retrieve(t, SelPisa, ExtPisa, {"indicator", "gender", "subject", "level"},
             [gender |-> <<"Total">>])

retrieve_skill_timss(t) ==
    Retrieve(t, SelTimss, ExtTimss, {"indicator", "gender", "subject", "achievement"},
             [gender |-> <<"Total">>])

retrieve_skill_piaac(t) ==
    Retrieve(t, SelPiaac, ExtPiaac, {"indicator", "gender", "subject", "level"},
             [gender |-> <<"Total">>])

(***************************************************************************)
(* Region annotation                                                       *)
(***************************************************************************)
\* The rows pd.merge(left, right, on=key) makes of one left row: one per
\* right row with the same key, in the right table's order.
MergeRow(l, right, key, cols) ==
    LET hits == Filter(right, LAMBDA r : r[key] = l[key])
    IN [j \in 1..Len(hits) |-> l @@ [c \in cols |-> hits[j][c]]]

RECURSIVE MergeRows(_, _, _, _)
MergeRows(left, right, key, cols) ==
    IF Len(left) = 0 THEN <<>>
    ELSE MergeRow(Head(left), right, key, cols) \o MergeRows(Tail(left), right, key, cols)

\* append_region as a left join: a row with no country row is kept, its
\* region missing.
append_region_left(t, df_country) ==
    LET Joined(l) == LET m == MergeRow(l, df_country, cCountry, {cRegion})
                     IN IF Len(m) = 0 THEN <<l @@ (cRegion :> NaN)>> ELSE m
        rows == [i \in 1..Len(t) |-> Joined(t[i])]
        Flat[n \in 0..Len(t)] == IF n = 0 THEN <<>> ELSE Flat[n - 1] \o rows[n]
    IN [i \in 1..Len(Flat[Len(t)]) |-> [Flat[Len(t)][i] EXCEPT ![IDX] = i - 1]]

\* pd.merge(df, df_country[['Country Code', 'Region']], on='Country Code'):
\* an inner join in the order of df, under a fresh index 0, 1, ...
append_region(t, df_country) ==
    LET rows == MergeRows(t, df_country, cCountry, {cRegion})
    IN [i \in 1..Len(rows) |-> [rows[i] EXCEPT ![IDX] = i - 1]]

(***************************************************************************)
(* Year filter                                                             *)
(***************************************************************************)
\* list(range(a, b, step))
RECURSIVE Range(_, _, _)
Range(a, b, step) == IF a >= b THEN <<>> ELSE <<a>> \o Range(a + step, b, step)

\* str(y) of an int
Str(y) == ToString(y)

\* The axis with the last year left out: range(2020, 2100, 5).
YearAxisShort == Range(1970, 2018, 1) \o Range(2020, 2100, 5)

\* list(range(1970, 2018)) + list(range(2020, 2101, 5))
YearAxis == Range(1970, 2018, 1) \o Range(2020, 2101, 5)

\* filter_years(df, years), on the column labels of df.  DataFrame.drop
\* raises KeyError when a label to drop is not a column.
filter_years(cols, years) ==
    LET ls_years == SelectSeq([i \in 1..Len(YearAxis) |-> Str(YearAxis[i])],
                              LAMBDA y : y \notin years)
        present == \A i \in 1..Len(ls_years) : \E j \in 1..Len(cols) : cols[j] = ls_years[i]
    IN IF present
       THEN [raised |-> "none",
             ret |-> SelectSeq(cols, LAMBDA c : \A i \in 1..Len(ls_years) : ls_years[i] # c)]
       ELSE [raised |-> "KeyError", ret |-> <<>>]

(***************************************************************************)
(* Population normalisation                                                *)
(***************************************************************************)
\* A number is a fraction <<n, d>> with d > 0; the float NaN is <<0, 0>>.
NumNaN == <<0, 0>>
Num(n) == <<n, 1>>

\* s1 / s2 on floats: NaN when either is NaN, or 0/0.
Quot(a, b) ==
    IF a = NumNaN \/ b = NumNaN \/ (a[1] = 0 /\ b[1] = 0) THEN NumNaN
    ELSE <<a[1] * b[2], a[2] * b[1]>>

\* The year columns population data is read from: df_pop.iloc[:, 4:50].
PopYears == {"1970", "1971"}

pop_ind == "SP.POP.TOTL"

\* Lines 63-78: the population rows of df_data that hold some value, by
\* country code, divided by 1000 when popk.
PopNorm(df_data, popk) ==
    LET df_pop == Filter(df_data, LAMBDA r : r[cCode] = pop_ind)
        some == Filter(df_pop, LAMBDA r : \E y \in PopYears : r[y] # NumNaN)
    IN [i \in 1..Len(some) |->
          (cCountry :> some[i][cCountry])
          @@ [y \in PopYears |-> IF popk THEN Quot(some[i][y], Num(1000)) ELSE some[i][y]]]

\* Line 79: df_new.combine(df_pop_norm, s1 / s2, overwrite=False), on the
\* rows of df: a year cell is divided by the population of the row's country
\* (NaN when there is none), the other columns are kept.
Combine(t, pop) ==
    [i \in 1..Len(t) |->
        [c \in DOMAIN t[i] |->
            IF c \in PopYears
            THEN LET p == Filter(pop, LAMBDA r : r[cCountry] = t[i][cCountry])
                 IN IF Len(p) = 0 THEN NumNaN ELSE Quot(t[i][c], p[1][c])
            ELSE t[i][c]]]

\* normalize_population(df, df_data, interpolate=False, popk), df given by
\* its rows and its column labels.  Line 79 computes the normalised table
\* df_new; line 82 then rebinds df_new to a table built from df itself:
\* df['index'] raises KeyError when df has no column 'index'; with one,
\* .drop('index') removes the rows labelled 'index' and raises KeyError when
\* no row is.
normalize_population(t, cols, df_data, popk) ==
    LET df_new == Combine(t, PopNorm(df_data, popk))    \* discarded by line 82
        has_index == \E j \in 1..Len(cols) : cols[j] = "index"
        labelled == [i \in 1..Len(t) |-> [t[i] EXCEPT ![IDX] = t[i]["index"]]]
    IN IF ~has_index
       THEN [raised |-> "KeyError", ret |-> <<>>]
       ELSE IF \A i \in 1..Len(labelled) : labelled[i][IDX] # "index"
       THEN [raised |-> "KeyError", ret |-> <<>>]
       ELSE [raised |-> "none",
             ret |-> Filter(labelled, LAMBDA r : r[IDX] # "index")]

(***************************************************************************)
(* Inputs                                                                  *)
(***************************************************************************)
IndicatorColumns == <<"Country Name", "Country Code", cName, cCode>>

\* The year columns of the data file: 1970 to 2017, then 2020 to 2100 by
\* steps of five.
FileYears == [i \in 1..48 |-> ToString(1969 + i)] \o [i \in 1..17 |-> ToString(2015 + 5 * i)]

\* The columns of the data file: four leading columns, the year columns, and
\* the unnamed last column.
FullColumns == IndicatorColumns \o FileYears \o <<"Unnamed: 69">>

IndRow(i, n, c) == (IDX :> i) @@ (cName :> n) @@ (cCode :> c)

\* The tables of at most MaxRows rows with the given names and codes, under
\* the index 0, 1, ... that read_csv gives.
Tables(names, codes) ==
    UNION {{[i \in 1..n |-> IndRow(i - 1, f[i][1], f[i][2])] :
              f \in [1..n -> names \X codes]} : n \in 0..MaxRows}

\* The tables of at most MaxRows rows that hold, at any one position, a row
\* with a name of `focus`, and rows with names of `others` elsewhere.
FocusTables(focus, others, codes) ==
    UNION {{[i \in 1..n |-> IF i = p THEN IndRow(i - 1, fr[1], fr[2])
                                       ELSE IndRow(i - 1, f[i][1], f[i][2])] :
              fr \in focus \X codes, p \in 1..n, f \in [1..n -> others \X codes]} :
           n \in 1..MaxRows}

\* Barro-Lee (percentage) names by their parts: female or not, the age
\* range (<<>> when absent), the schooling, the completion (<<>> when absent).
BarroName(female, age, schooling, completed) ==
    <<"Barro-Lee:", " ", "Percentage", " ", "of">>
    \o (IF female THEN <<" ", "female">> ELSE <<>>)
    \o <<" ", "population">>
    \o (IF age = <<>> THEN <<>> ELSE <<" ", "age", " ">> \o age)
    \o <<" ", "with", " ">> \o schooling
    \o (IF completed = <<>> THEN <<>> ELSE <<".", " ">> \o completed)

BarroAges == {<<>>, <<"15", "-", "19">>, <<"75", "+">>}
BarroSchoolings == {W(<<"No", "Education">>), <<"Tertiary">>}
BarroCompleteds == {<<>>, W(<<"Completed", "Tertiary">>)}

BarroNames ==
    {BarroName(g, a, sc, co) :
        g \in BOOLEAN, a \in BarroAges, sc \in BarroSchoolings, co \in BarroCompleteds}

\* Names the Barro-Lee selector takes and the extraction pattern does not,
\* and a name of another family.
BarroOddNames ==
    {W(<<"Barro-Lee:", "Percentage", "of", "male", "population", "with", "Tertiary">>),
     W(<<"Barro-Lee:", "Average", "years", "of", "Tertiary">>)}

\* The names of the rows beside the one under study.
BarroCompanions == BarroOddNames \cup {BarroName(FALSE, <<>>, <<"Tertiary">>, <<>>)}

\* PISA names by their parts: the gender ("" when absent), the subject, the level.
PisaName(gender, subject, level) ==
    <<"PISA:", " ">>
    \o (IF gender = "" THEN <<>> ELSE <<gender, " ">>)
    \o <<"15", "-", "year-olds", " ", "by", " ">> \o subject
    \o <<" ", "proficiency", " ", "level", " ", "(", "%", ")", ".", " ">> \o level

PisaGenders == {"", "Male", "Female"}
PisaSubjects == {<<"mathematics">>, <<"reading">>}
PisaLevels == {W(<<"Below", "Level", "1">>), W(<<"Level", "2">>)}

PisaNames ==
    {PisaName(g, su, l) : g \in PisaGenders, su \in PisaSubjects, l \in PisaLevels}

PisaOddNames ==
    {W(<<"PISA:", "Mean", "performance", "by", "proficiency", "level">>),
     W(<<"PIAAC:", "Adults", "by", "numeracy", "proficiency", "level">>)
        \o <<" ", "(", "%", ")", ".", " ">> \o W(<<"Level", "2">>)}

PisaCompanions == PisaOddNames \cup {PisaName("", <<"reading">>, W(<<"Level", "2">>))}

EduLengthName(x) ==
    W(<<"Theoretical", "duration", "of">>) \o <<" ">> \o x
    \o <<" ", "education", " ", "(", "years", ")">>
GdpInstName(x) ==
    W(<<"Government", "expenditure", "in">>) \o <<" ">> \o x
    \o <<" ">> \o W(<<"as", "%", "of", "GDP">>) \o <<" ", "(", "%", ")">>
GdpEduName(x) ==
    W(<<"Government", "expenditure", "on">>) \o <<" ">> \o x
    \o <<" ">> \o W(<<"education", "as", "%", "of", "GDP">>) \o <<" ", "(", "%", ")">>

EduKinds == {<<"primary">>, W(<<"lower", "secondary">>)}

\* One or two names of every family, as the data file spells them.
FacetNames ==
    {EduLengthName(x) : x \in EduKinds}
    \cup {GdpInstName(W(<<"tertiary", "institutions">>)), GdpEduName(<<"primary">>)}
    \cup {BarroName(TRUE, <<"15", "-", "19">>, W(<<"Some", "Secondary">>), <<>>),
          W(<<"Barro-Lee:", "Percentage", "of", "male", "population", "with", "Tertiary">>),
          W(<<"Barro-Lee:", "Average", "years", "of", "Tertiary", "schooling">>)
             \o <<",", " ", "age", " ", "25", "+", ",", " ", "female">>,
          PisaName("Female", <<"mathematics">>, W(<<"Below", "Level", "1">>)),
          W(<<"PISA:", "Mean", "performance", "by", "proficiency", "level">>),
          <<"LLECE:", " ", "3", "rd", " ">> \o W(<<"grade", "students", "by", "reading",
             "proficiency", "level">>) \o <<" ", "(", "%", ")", ".", " ">> \o W(<<"Level", "2">>),
          <<"TIMSS:", " ">> \o W(<<"Female", "4th", "grade", "students", "reaching", "the",
             "low", "international", "benchmark", "of", "science", "achievement">>)
             \o <<" ", "(", "%", ")">>,
          <<"PIAAC:", " ">> \o W(<<"Female", "adults", "by", "numeracy", "proficiency",
             "level">>) \o <<" ", "(", "%", ")", ".", " ">> \o W(<<"Below", "Level", "1">>),
          W(<<"Wittgenstein", "Projection:", "Mean", "years", "of", "schooling">>)
             \o <<".", " ", "Age", " ", "15", "-", "19", ".", " ", "Female">>,
          W(<<"Wittgenstein", "Projection:", "Population", "age">>)
             \o <<" ", "15", "-", "19", " ">> \o W(<<"in", "thousands", "by", "highest",
             "level", "of">>) \o <<" ", "education", "al", " ", "attainment">>
             \o <<".", " ">> \o W(<<"No", "Education">>) \o <<".", " ", "Total">>}

\* Names no extraction pattern matches: one the Barro-Lee selector takes, one
\* the PISA selector takes.
FacetOddNames ==
    {W(<<"Barro-Lee:", "Percentage", "of", "male", "population", "with", "Tertiary">>),
     W(<<"PISA:", "Mean", "performance", "by", "proficiency", "level">>)}

Codes == {"SE.IND.A", "SE.IND.B"}

\* The patterns list_indicators and _retrieve_indicator are called with.
PatternOf(name) ==
    CASE name = "Barro-Lee: Percentage of .*" -> SelBarroPct
      [] name = "barro-lee: percentage of .*" ->
            Cat(<<Lit(W(<<"barro-lee:", "percentage", "of">>) \o <<" ">>), Rep(Dot, 0, TRUE)>>)
      [] name = "PISA: .* proficiency level" -> SelPisa
      [] name = "Tertiary$" -> Cat(<<Lit(<<"Tertiary">>), Eos>>)

Patterns == {"Barro-Lee: Percentage of .*", "barro-lee: percentage of .*",
             "PISA: .* proficiency level", "Tertiary$"}

SelNames ==
    {BarroName(FALSE, <<>>, <<"Tertiary">>, <<>>),
     W(<<"barro-lee:", "percentage", "of", "population", "with", "tertiary">>),
     PisaName("", <<"reading">>, W(<<"Level", "2">>))}

(***************************************************************************)
(* The calls                                                               *)
(***************************************************************************)
Returns(f, a, r) ==
    /\ fn' = f
    /\ arg' = a
    /\ ret' = r
    /\ raised' = "none"
    /\ UNCHANGED <<df, other, columns>>

ListIndicators ==
    \E p \in Patterns : Returns("list_indicators", p, list_indicators(PatternOf(p), df))

RetrieveIndicator ==
    \E p \in Patterns : Returns("_retrieve_indicator", p, retrieve_indicator(df, PatternOf(p)))

RetrieveWittgensteinMeanSchooling ==
    Returns("retrieve_wittgenstein_mean_schooling", "", retrieve_wittgenstein_mean_schooling(df))
RetrieveWittgensteinPopulation ==
    Returns("retrieve_wittgenstein_population", "", retrieve_wittgenstein_population(df))
RetrieveBarroleePercentage ==
    Returns("retrieve_barrolee_percentage", "", retrieve_barrolee_percentage(df))
RetrieveBarroleeYears ==
    Returns("retrieve_barrolee_years", "", retrieve_barrolee_years(df))
RetrieveEducationLength ==
    Returns("retrieve_education_length", "", retrieve_education_length(df))
RetrieveGdpEducationInstitution ==
    Returns("retrieve_gdp_education_institution", "", retrieve_gdp_education_institution(df))
RetrieveGdpEducation ==
    Returns("retrieve_gdp_education", "", retrieve_gdp_education(df))
RetrieveSkillLlece ==
    Returns("retrieve_skill_llece", "", retrieve_skill_llece(df))
RetrieveSkillPisa ==
    Returns("retrieve_skill_pisa", "", retrieve_skill_pisa(df))
RetrieveSkillTimss ==
    Returns("retrieve_skill_timss", "", retrieve_skill_timss(df))
RetrieveSkillPiaac ==
    Returns("retrieve_skill_piaac", "", retrieve_skill_piaac(df))

NoCall ==
    /\ fn = "none"
    /\ ret = <<>>
    /\ raised = "none"

\* Indicator selection over small tables.
InitSel ==
    /\ df \in Tables(SelNames, Codes)
    /\ other = <<>>
    /\ columns = IndicatorColumns
    /\ arg = ""
    /\ NoCall
NextSel == ListIndicators \/ RetrieveIndicator
SpecSel == InitSel /\ [][NextSel]_vars

\* Every facet grammar over a table with names of every family.
InitFacet ==
    /\ df \in FocusTables(FacetNames, FacetOddNames, Codes)
    /\ other = <<>>
    /\ columns = IndicatorColumns
    /\ arg = ""
    /\ NoCall
NextFacet ==
    \/ RetrieveWittgensteinMeanSchooling
    \/ RetrieveWittgensteinPopulation
    \/ RetrieveBarroleePercentage
    \/ RetrieveBarroleeYears
    \/ RetrieveEducationLength
    \/ RetrieveGdpEducationInstitution
    \/ RetrieveGdpEducation
    \/ RetrieveSkillLlece
    \/ RetrieveSkillPisa
    \/ RetrieveSkillTimss
    \/ RetrieveSkillPiaac
SpecFacet == InitFacet /\ [][NextFacet]_vars

\* The Barro-Lee percentage grammar over every name of its form.
InitBarro ==
    /\ df \in FocusTables(BarroNames \cup BarroOddNames, BarroCompanions, Codes)
    /\ other = <<>>
    /\ columns = IndicatorColumns
    /\ arg = ""
    /\ NoCall
NextBarro == RetrieveBarroleePercentage
SpecBarro == InitBarro /\ [][NextBarro]_vars

\* The PISA grammar over every name of its form.
InitPisa ==
    /\ df \in FocusTables(PisaNames \cup PisaOddNames, PisaCompanions, Codes)
    /\ other = <<>>
    /\ columns = IndicatorColumns
    /\ arg = ""
    /\ NoCall
NextPisa == RetrieveSkillPisa
SpecPisa == InitPisa /\ [][NextPisa]_vars

\* The year filter, the caller keeping the result: df = filter_years(df, years).
YearSample == {"1969", "1970", "2017", "2018", "2020", "2100", cCode}
AllYears == {FileYears[i] : i \in 1..Len(FileYears)}
YearLists == (SUBSET YearSample) \cup {AllYears, AllYears \cup {"2018"}}

FilterYears ==
    \E years \in YearLists :
        LET r == filter_years(columns, years)
        IN /\ fn' = "filter_years"
           /\ arg' = [columns |-> columns, years |-> years]
           /\ ret' = r.ret
           /\ raised' = r.raised
           /\ columns' = IF r.raised = "none" THEN r.ret ELSE columns
           /\ UNCHANGED <<df, other>>

InitYears ==
    /\ df = <<>>
    /\ other = <<>>
    /\ columns = FullColumns
    /\ arg = [columns |-> <<>>, years |-> {}]
    /\ NoCall
NextYears == FilterYears
SpecYears == InitYears /\ [][NextYears]_vars

\* The region join.
MaxCountries == 2
CountryCodes == {"ABW", "AFG"}
Regions == {"Latin America & Caribbean", "South Asia"}

ValueTables ==
    UNION {{[i \in 1..n |-> (IDX :> i - 1) @@ (cCountry :> f[i])] :
              f \in [1..n -> CountryCodes \cup {"WLD"}]} : n \in 0..MaxRows}

CountryTables ==
    UNION {{[i \in 1..n |-> (IDX :> i - 1) @@ (cCountry :> f[i][1]) @@ (cRegion :> f[i][2])] :
              f \in [1..n -> CountryCodes \X Regions]} : n \in 0..MaxCountries}

AppendRegion ==
    /\ fn' = "append_region"
    /\ arg' = ""
    /\ ret' = append_region(df, other)
    /\ raised' = "none"
    /\ UNCHANGED <<df, other, columns>>

InitRegion ==
    /\ df \in ValueTables
    /\ other \in CountryTables
    /\ columns = <<cCountry>>
    /\ arg = ""
    /\ NoCall
NextRegion == AppendRegion
SpecRegion == InitRegion /\ [][NextRegion]_vars

\* The population normaliser.
MaxPopRows == 1

NormCells == {Num(500), NumNaN}
PopCells == {Num(2000), NumNaN}

\* Tables in the format of df_data, with or without a column named 'index'.
NormTables(with_index) ==
    UNION {{[i \in 1..n |->
               (IDX :> i - 1) @@ (cCountry :> f[i][1]) @@ (cCode :> "SE.IND.A")
               @@ ("1970" :> f[i][2]) @@ ("1971" :> Num(100))
               @@ (IF with_index THEN ("index" :> f[i][3]) ELSE <<>>)] :
              f \in [1..n -> CountryCodes \X NormCells \X {"0", "index"}]} :
           n \in 1..MaxRows}

NormColumns(with_index) ==
    IndicatorColumns \o <<"1970", "1971">>
    \o (IF with_index THEN <<"index">> ELSE <<>>) \o <<"Unnamed: 69">>

DataTables ==
    UNION {{[i \in 1..n |->
               (IDX :> i - 1) @@ (cCountry :> f[i][1]) @@ (cCode :> f[i][2])
               @@ ("1970" :> f[i][3]) @@ ("1971" :> f[i][4])] :
              f \in [1..n -> CountryCodes \X {pop_ind, "SE.IND.A"} \X PopCells \X PopCells]} :
           n \in 0..MaxPopRows}

NormalizePopulation ==
    \E popk \in BOOLEAN :
        LET r == normalize_population(df, columns, other, popk)
        IN /\ fn' = "normalize_population"
           /\ arg' = popk
           /\ ret' = r.ret
           /\ raised' = r.raised
           /\ UNCHANGED <<df, other, columns>>

InitNorm ==
    /\ \E with_index \in BOOLEAN :
          /\ df \in NormTables(with_index)
          /\ columns = NormColumns(with_index)
    /\ other \in DataTables
    /\ arg = TRUE
    /\ NoCall
NextNorm == NormalizePopulation
SpecNorm == InitNorm /\ [][NextNorm]_vars

(***************************************************************************)
(* Properties                                                              *)
(***************************************************************************)
\* The set of the elements of a sequence.
Elems(xs) == {xs[i] : i \in 1..Len(xs)}

\* The facet grammars: the selector, the extraction pattern and the facet
\* columns of each retrieve_* function.
Grammar(f) ==
    CASE f = "retrieve_wittgenstein_mean_schooling" ->
            [sel |-> SelWittMean, ext |-> ExtWittMean,
             facets |-> {"indicator", "age_group", "gender"}]
      [] f = "retrieve_wittgenstein_population" ->
            [sel |-> SelWittPop, ext |-> ExtWittPop,
             facets |-> {"indicator", "age_group", "education", "gender"}]
      [] f = "retrieve_barrolee_percentage" ->
            [sel |-> SelBarroPct, ext |-> ExtBarroPct,
             facets |-> {"indicator", "schooling", "completed", "age_group", "gender"}]
      [] f = "retrieve_barrolee_years" ->
            [sel |-> SelBarroYears, ext |-> ExtBarroYears,
             facets |-> {"indicator", "schooling", "age_group", "gender"}]
      [] f = "retrieve_education_length" ->
            [sel |-> SelEduLength, ext |-> ExtEduLength, facets |-> {"education"}]
      [] f = "retrieve_gdp_education_institution" ->
            [sel |-> SelGdpInst, ext |-> ExtGdpInst, facets |-> {"institution"}]
      [] f = "retrieve_gdp_education" ->
            [sel |-> SelGdpEdu, ext |-> ExtGdpEdu, facets |-> {"education"}]
      [] f = "retrieve_skill_llece" ->
            [sel |-> SelLlece, ext |-> ExtLlece,
             facets |-> {"indicator", "gender", "grade", "subject", "level"}]
      [] f = "retrieve_skill_pisa" ->
            [sel |-> SelPisa, ext |-> ExtPisa,
             facets |-> {"indicator", "gender", "subject", "level"}]
      [] f = "retrieve_skill_timss" ->
            [sel |-> SelTimss, ext |-> ExtTimss,
             facets |-> {"indicator", "gender", "subject", "achievement"}]
      [] f = "retrieve_skill_piaac" ->
            [sel |-> SelPiaac, ext |-> ExtPiaac,
             facets |-> {"indicator", "gender", "subject", "level"}]

\* The rows of the result that come from row i of df.
From(i) == {j \in 1..Len(ret) : ret[j][IDX] = df[i][IDX]}

\* C1: for every facet grammar, a row the coarse selector takes and the
\* extraction pattern does not match is returned, no error is raised, and
\* every facet column of the grammar is null in it.
C1_UnmatchedRowsAllNull ==
    (fn # "none") =>
        /\ raised = "none"
        /\ \A i \in 1..Len(df) :
              (/\ StrContains(df[i][cName], Grammar(fn).sel, TRUE)
               /\ ~StrContains(df[i][cName], Grammar(fn).ext, FALSE))
              => /\ From(i) # {}
                 /\ \A j \in From(i) : \A g \in Grammar(fn).facets : ret[j][g] = NaN

\* C2: the single-facet grammars fill their facet from the name of every
\* selected row: education = X for 'Theoretical duration of X education
\* (years)', institution = X for 'Government expenditure in X as % of GDP (%)',
\* education = X for 'Government expenditure on X education as % of GDP (%)'.
C2_SingleFacetFilled ==
    \A i \in 1..Len(df) :
        /\ (fn = "retrieve_education_length") =>
              \A x \in EduKinds :
                  (df[i][cName] = EduLengthName(x)) =>
                      /\ From(i) # {}
                      /\ \A j \in From(i) : ret[j]["education"] = x
        /\ (fn = "retrieve_gdp_education_institution") =>
              \A x \in {W(<<"tertiary", "institutions">>)} :
                  (df[i][cName] = GdpInstName(x)) =>
                      /\ From(i) # {}
                      /\ \A j \in From(i) : ret[j]["institution"] = x
        /\ (fn = "retrieve_gdp_education") =>
              \A x \in {<<"primary">>} :
                  (df[i][cName] = GdpEduName(x)) =>
                      /\ From(i) # {}
                      /\ \A j \in From(i) : ret[j]["education"] = x

\* The population of a row's country: the first SP.POP.TOTL row of df_data
\* for it, <<>> when there is none.
PopulationOf(r) ==
    Filter(other, LAMBDA p : p[cCode] = pop_ind /\ p[cCountry] = r[cCountry])

\* C3: normalize_population returns a table in the format of df in which
\* every year cell is the input cell divided by the population of the same
\* country and year, the population divided by 1000 first when popk (500
\* with population 2000 gives 250).
C3_NormalizedByPopulation ==
    (fn = "normalize_population") =>
        /\ raised = "none"
        /\ Len(ret) = Len(df)
        /\ \A i \in 1..Len(ret) : \A y \in PopYears :
              LET pop == PopulationOf(df[i])
                  a == df[i][y]
                  b == pop[1][y]
                  k == IF arg THEN 1000 ELSE 1
                  r == ret[i][y]
              IN (pop # <<>> /\ a # NumNaN /\ b # NumNaN /\ b[1] # 0) =>
                    /\ r # NumNaN
                    /\ r[1] * a[2] * b[1] = a[1] * b[2] * k * r[2]

\* C4: retrieve_barrolee_percentage, for every name 'Barro-Lee: Percentage
\* of [female ]population [age A ]with S[. C]', extracts indicator = the text
\* after 'Barro-Lee: ', gender = 'female' when present and 'total' otherwise,
\* age_group = 'age A' when present and null otherwise, schooling = S, and
\* completed = C when present and null otherwise.
C4_BarroLeeFacets ==
    (fn = "retrieve_barrolee_percentage") =>
        \A i \in 1..Len(df) :
            \A g \in BOOLEAN, a \in BarroAges, sc \in BarroSchoolings, co \in BarroCompleteds :
                (df[i][cName] = BarroName(g, a, sc, co)) =>
                    /\ From(i) # {}
                    /\ \A j \in From(i) :
                          /\ <<"Barro-Lee:", " ">> \o ret[j]["indicator"] = df[i][cName]
                          /\ ret[j]["gender"] = IF g THEN <<"female">> ELSE <<"total">>
                          /\ ret[j]["age_group"] =
                                IF a = <<>> THEN NaN ELSE <<"age", " ">> \o a
                          /\ ret[j]["schooling"] = sc
                          /\ ret[j]["completed"] = IF co = <<>> THEN NaN ELSE co

C4_Witness ==
    /\ fn = "retrieve_barrolee_percentage"
    /\ \E j \in 1..Len(ret) :
          /\ ret[j]["gender"] = <<"female">>
          /\ ret[j]["age_group"] = <<"age", " ", "15", "-", "19">>
          /\ ret[j]["schooling"] = W(<<"No", "Education">>)
          /\ ret[j]["completed"] = W(<<"Completed", "Tertiary">>)
    /\ \E j \in 1..Len(ret) :
          /\ ret[j]["gender"] = <<"total">>
          /\ ret[j]["schooling"] # NaN
          /\ ret[j]["age_group"] = NaN
          /\ ret[j]["completed"] = NaN

\* C5: retrieve_skill_pisa, for every name 'PISA: [Male |Female ]N-year-olds
\* by S proficiency level (%). L', extracts gender = the leading Male or
\* Female when present and 'Total' when absent, subject = S and level = L.
C5_PisaFacets ==
    (fn = "retrieve_skill_pisa") =>
        \A i \in 1..Len(df) :
            \A g \in PisaGenders, su \in PisaSubjects, l \in PisaLevels :
                (df[i][cName] = PisaName(g, su, l)) =>
                    /\ From(i) # {}
                    /\ \A j \in From(i) :
                          /\ ret[j]["gender"] = IF g = "" THEN <<"Total">> ELSE <<g>>
                          /\ ret[j]["subject"] = su
                          /\ ret[j]["level"] = l

C5_Witness ==
    /\ fn = "retrieve_skill_pisa"
    /\ \E j \in 1..Len(ret) :
          /\ ret[j][cName] = PisaName("Female", <<"mathematics">>, W(<<"Below", "Level", "1">>))
          /\ ret[j]["gender"] = <<"Female">>
    /\ \E j \in 1..Len(ret) :
          /\ ret[j][cName] \in {PisaName("", su, l) : su \in PisaSubjects, l \in PisaLevels}
          /\ ret[j]["gender"] = <<"Total">>

\* The fixed year axis as the column labels: 1970..2017, then every fifth
\* year from 2020 to 2100.
AxisLabels == {Str(y) : y \in 1970..2017} \cup {Str(2020 + 5 * n) : n \in 0..16}

\* C6: filter_years(df, years), for df carrying the full year axis and years
\* given as year strings, returns the columns of df that are no year or are
\* a requested year of the axis, in the order of df; requested years off
\* the axis change nothing, and requesting every year of the axis returns
\* df unchanged.
C6_FilterYearsProjection ==
    (fn = "filter_years" /\ AxisLabels \subseteq Elems(arg.columns)) =>
        /\ raised = "none"
        /\ ret = SelectSeq(arg.columns,
                           LAMBDA c : c \notin AxisLabels \/ c \in arg.years)
        /\ Elems(ret) = (Elems(arg.columns) \ AxisLabels) \cup (arg.years \cap AxisLabels)
        /\ (AxisLabels \subseteq arg.years) => ret = arg.columns

C6_Witness ==
    /\ fn = "filter_years"
    /\ AxisLabels \subseteq Elems(arg.columns)
    /\ arg.years = {"1970", "2018", "2100"}
    /\ Elems(ret) \cap AxisLabels = {"1970", "2100"}

\* No country code is on two rows of the country table.
UniqueCountries ==
    \A a, b \in 1..Len(other) : other[a][cCountry] = other[b][cCountry] => a = b

RegionClaim ==
    /\ Len(ret) <= Len(df)
    /\ Len(ret) = Len(df) <=>
          \A i \in 1..Len(df) : \E c \in 1..Len(other) : other[c][cCountry] = df[i][cCountry]
    /\ \A j \in 1..Len(ret) : \E c \in 1..Len(other) : other[c][cCountry] = ret[j][cCountry]

C8_RowsByMatchedCode ==
    (fn = "_retrieve_indicator") =>
        ret = SelectSeq(df, LAMBDA r :
                  \E k \in 1..Len(df) :
                      /\ df[k][cCode] = r[cCode]
                      /\ StrContains(df[k][cName], PatternOf(arg), TRUE))

C8_Witness ==
    /\ fn = "_retrieve_indicator"
    /\ Len(ret) = 2
    /\ ~StrContains(ret[1][cName], PatternOf(arg), TRUE)
    /\ StrContains(ret[2][cName], PatternOf(arg), TRUE)
    /\ ~StrContains(ret[2][cName], PatternOf(arg), FALSE)

\* The rows of df whose name matches the pattern of the call, case-sensitively.
Matching == {i \in 1..Len(df) : StrContains(df[i][cName], PatternOf(arg), FALSE)}
FirstRow(code) == CHOOSE i \in Matching :
                     /\ df[i][cCode] = code
                     /\ \A k \in Matching : df[k][cCode] = code => i <= k

C10_FilterYearsTotal == (fn = "filter_years") => raised = "none"

====
